---- MODULE Spec2Model ----
(***************************************************************************)
(* Model of generate.py, the startup-name generator: the script's control  *)
(* flow (argument parsing, vocabulary, tensor encoding, load-or-train,     *)
(* generation loop), the tensor encoder, temp_scale and generate_word.     *)
(*                                                                         *)
(* Characters are their Unicode code points, so that sorted() is the       *)
(* numeric order.  Python's 0-based indices are kept: ix_to_char, X and Y  *)
(* are functions over 0..n-1; Python lists (words, chars, a word) are      *)
(* sequences, element k of the list being seq[k+1].                        *)
(*                                                                         *)
(* Three specifications share the variables:                               *)
(*   Spec     the whole script, generate_word taken as one call;           *)
(*   SpecEnc  lines 58-91 (vocabulary and encoding) over many word lists;  *)
(*   SpecGen  one call of generate_word, statement by statement            *)
(*            (SpecGenFair adds the fairness of a running program).        *)
(***************************************************************************)
EXTENDS Integers, Sequences, FiniteSets, TLC

VARIABLES
    pc,               \* position of the script (module-level code)
    args,             \* argparse namespace (line 32)
    words,            \* line 58
    chars,            \* line 62, rebound by line 83
    VOCAB_SIZE,       \* line 64
    N_WORDS,          \* line 65
    ix_to_char,       \* line 75
    char_to_ix,       \* line 76
    X, Y,             \* lines 78-91
    model,            \* the Keras model: where its parameters come from, and how many epochs updated them
    epoch,            \* epoch counter inside model.fit
    np_random,        \* state of the global numpy generator, as the number of draws taken from it
    stdout,           \* what the script printed, in order
    saved,            \* whether model.save ran
    gpc,              \* position inside generate_word
    temperature,      \* generate_word's argument
    min_word_length,  \* generate_word's argument
    gen_X,            \* generate_word's local X (line 113)
    distribution,     \* initial_char_distribution / next_char_distribution
    ix,               \* line 118
    i,                \* loop variable of line 126
    ix_choice,        \* line 130
    ctr,              \* line 132
    generated_word,   \* line 123
    result            \* the returned string

script_vars == <<pc, args, words, chars, VOCAB_SIZE, N_WORDS, ix_to_char, char_to_ix,
                 X, Y, model, epoch, np_random, stdout, saved>>

gen_vars == <<gpc, temperature, min_word_length, gen_X, distribution, ix, i,
              ix_choice, ctr, generated_word, result>>

vars == <<script_vars, gen_vars>>

None == "None"

----------------------------------------------------------------------------
(* Characters and the word list handed over by preprocess.text_to_words.   *)

NL == 10         \* "\n", the end-of-word marker
TAB == 9         \* "\t"
CHAR_a == 97     \* "a"
CHAR_A == 65     \* "A"
CHAR_S == 83     \* "S"
CHAR_SZ == 223   \* the German sharp s, U+00DF

MAX_WORD_LEN == 12

\* bounds of the word lists explored
MaxWords == 2
MaxBodyLen == 2

Min(a, b) == IF a < b THEN a ELSE b

Rep(c, n) == [k \in 1..n |-> c]

\* the characters a word may hold before its final newline
Alphabet == {TAB, CHAR_a, CHAR_SZ}

ShortBodies == UNION {[1..n -> Alphabet] : n \in 1..MaxBodyLen}

\* words around the length limit: MAX_WORD_LEN-1 .. MAX_WORD_LEN+2 characters with the newline
LongBodies == {Rep(CHAR_a, n) : n \in (MAX_WORD_LEN - 2)..(MAX_WORD_LEN + 1)}

\* text_to_words: every word ends with the newline and is otherwise arbitrary text
Words == {b \o <<NL>> : b \in ShortBodies \cup LongBodies}

WordLists == UNION {[1..n -> Words] : n \in 1..MaxWords}

\* the word lists the script and generate_word are run on
SampleWordLists ==
    { << <<CHAR_SZ, NL>> >>,
      << <<CHAR_a, NL>>, <<CHAR_a, CHAR_a, NL>> >>,
      << <<TAB, NL>> >> }

----------------------------------------------------------------------------
(* Lines 62-76: vocabulary.                                                *)

\* set([char for word in words for char in word])
CharSet(ws) == UNION {{ws[k][j] : j \in 1..Len(ws[k])} : k \in 1..Len(ws)}

SetMin(S) == CHOOSE m \in S : \A y \in S : m <= y

RECURSIVE sorted(_)
sorted(S) == IF S = {} THEN <<>> ELSE <<SetMin(S)>> \o sorted(S \ {SetMin(S)})

\* {ix:char for ix, char in enumerate(chars)}
IxToChar(cs) == [k \in 0..(Len(cs) - 1) |-> cs[k + 1]]

\* {char:ix for ix, char in enumerate(chars)}; a later index wins, as in a dict comprehension
CharToIx(cs) ==
    [c \in {cs[k] : k \in 1..Len(cs)} |->
        CHOOSE n \in 0..(Len(cs) - 1) :
            /\ cs[n + 1] = c
            /\ \A m \in 0..(Len(cs) - 1) : cs[m + 1] = c => m <= n]

----------------------------------------------------------------------------
(* Lines 78-91: tensor encoding.                                           *)

\* np.zeros((n, MAX_WORD_LEN, v))
Zeros(n, v) == [w \in 0..(n - 1) |-> [t \in 0..(MAX_WORD_LEN - 1) |-> [k \in 0..(v - 1) |-> 0]]]

\* line 91: the timestep of Y that receives the character at char_j
YIndexUnshifted(char_j) == char_j
YIndex(char_j) == char_j - 1

\* lines 86-91, the inner loop from char_j on
RECURSIVE EncodeChars(_, _, _, _, _)
EncodeChars(XY, word_i, word, char_j, c2i) ==
    IF char_j >= Min(Len(word), MAX_WORD_LEN) THEN XY
    ELSE LET char == word[char_j + 1]
             char_ix == c2i[char]
             X1 == [XY.X EXCEPT ![word_i][char_j][char_ix] = 1]
             Y1 == IF char_j > 0
                   THEN [XY.Y EXCEPT ![word_i][YIndex(char_j)][char_ix] = 1]
                   ELSE XY.Y
         IN EncodeChars([X |-> X1, Y |-> Y1], word_i, word, char_j + 1, c2i)

\* lines 81-91, the outer loop from word_i on
RECURSIVE EncodeWords(_, _, _, _)
EncodeWords(XY, ws, word_i, c2i) ==
    IF word_i >= Len(ws) THEN XY
    ELSE EncodeWords(EncodeChars(XY, word_i, ws[word_i + 1], 0, c2i), ws, word_i + 1, c2i)

----------------------------------------------------------------------------
(* Floating-point values, as far as temp_scale needs them: a probability   *)
(* is an exact power of two 2^-exp, or exactly zero; NaN is the result of  *)
(* 0/0.  Logarithms are taken to base 2, which changes nothing in          *)
(* exp(log(p)/t).                                                          *)

Pow2(n) == [kind |-> "pow2", exp |-> n]
Zero == [kind |-> "zero", exp |-> 0]

\* model.predict returns float32: the smallest positive value is 2^-149,
\* anything below underflows to zero in np.exp
FLOAT_MIN_EXP == 149

\* the largest exponent of a predicted probability that is explored
MaxExp == 2

RECURSIVE TwoTo(_)
TwoTo(n) == IF n = 0 THEN 1 ELSE 2 * TwoTo(n - 1)

\* a probability as a multiple of 2^-MaxExp
Units(p) == IF p.kind = "pow2" THEN TwoTo(MaxExp - p.exp) ELSE 0

RECURSIVE SumUnits(_, _)
SumUnits(probs, n) == IF n = 0 THEN 0 ELSE Units(probs[n - 1]) + SumUnits(probs, n - 1)

\* model.predict(...)[..., :]: any probability vector over the vocabulary
\* (softmax output: non-negative, sums to 1; an entry can be exactly 0 or exactly 1)
Predict(v) ==
    {probs \in [0..(v - 1) -> {Zero} \cup {Pow2(n) : n \in 0..MaxExp}] :
        SumUnits(probs, v) = TwoTo(MaxExp)}

\* temperatures t = num/den > 0
Rational(n, d) == [num |-> n, den |-> d]
Temperatures == {Rational(1, 1), Rational(1, 100), Rational(1, 2000)}

\* line 107, one entry: np.exp(np.log(p) / temperature)
\* log(0) = -inf, -inf / t = -inf, exp(-inf) = 0;
\* log(2^-n) / t = -(n * den / num), and exp underflows to 0 below 2^-FLOAT_MIN_EXP
ExpLogDiv(p, t) ==
    IF p.kind = "zero" THEN Zero
    ELSE LET e == (p.exp * t.den) \div t.num
         IN IF e > FLOAT_MIN_EXP THEN Zero ELSE Pow2(e)

\* lines 104-109.  The result of line 108 is kept as the vector it divides
\* (weights) and whether the division was 0/0 (nan): entry k of the returned
\* vector is weights[k] / sum(weights), NaN in every entry when the sum is 0.
temp_scale(probs, t) ==
    LET scaled == [k \in DOMAIN probs |-> ExpLogDiv(probs[k], t)]
        sumIsZero == \A k \in DOMAIN probs : scaled[k].kind = "zero"
    IN [nan |-> sumIsZero, weights |-> scaled]

\* np.random.choice(VOCAB_SIZE, size = 1, p = d): the indices it can return;
\* with NaN in p it raises ValueError instead
Choice(d) == {k \in DOMAIN d.weights : d.weights[k].kind = "pow2"}

\* str.upper() of one character, as a string
Upper(c) ==
    IF c = CHAR_a THEN <<CHAR_A>>
    ELSE IF c = CHAR_SZ THEN <<CHAR_S, CHAR_S>>
    ELSE <<c>>

\* ('').join(list of strings)
RECURSIVE Join(_)
Join(strs) == IF strs = <<>> THEN <<>> ELSE Head(strs) \o Join(Tail(strs))

ZeroRow(v) == [k \in 0..(v - 1) |-> 0]
NoDistribution == [nan |-> FALSE, weights |-> <<>>]

----------------------------------------------------------------------------
(* Lines 112-149: generate_word, statement by statement.                   *)

ResampleCap == 1000

\* line 133: the condition of the resampling loop
MustResampleShort(choice, step, min_len) == choice = 0 /\ step < min_len - 1
MustResample(choice, step, min_len) == choice = 0 /\ step < min_len

\* line 137
CapExhaustedLate(n) == n > ResampleCap + 2
CapExhaustedEarly(n) == n >= ResampleCap
CapExhausted(n) == n > ResampleCap

\* line 138: the diagnostic
Diagnostic == "caught in a near-infinite loop"

\* lines 113-118: the local X, the first distribution, ix = 0
GenStart ==
    /\ gpc = "start"
    /\ \E probs \in Predict(VOCAB_SIZE) :
          distribution' = temp_scale(probs, temperature)
    /\ gen_X' = [t \in 0..(MAX_WORD_LEN - 1) |-> ZeroRow(VOCAB_SIZE)]
    /\ ix' = 0
    /\ gpc' = "first"
    /\ UNCHANGED <<temperature, min_word_length, i, ix_choice, ctr, generated_word, result>>
    /\ UNCHANGED script_vars

\* lines 119-123: one pass of "while ix == 0", and what follows the loop when it ends
SampleFirst ==
    /\ gpc = "first"
    /\ IF distribution.nan
       THEN /\ gpc' = "raised"       \* np.random.choice: ValueError
            /\ UNCHANGED <<ix, gen_X, generated_word, i>>
       ELSE \E k \in Choice(distribution) :
              /\ ix' = k
              /\ IF k = 0
                 THEN UNCHANGED <<gpc, gen_X, generated_word, i>>
                 ELSE /\ gen_X' = [gen_X EXCEPT ![0][k] = 1]
                      /\ generated_word' = <<Upper(ix_to_char[k])>>
                      /\ i' = 1
                      /\ gpc' = "for"
    /\ UNCHANGED <<temperature, min_word_length, distribution, ix_choice, ctr, result>>
    /\ UNCHANGED script_vars

\* lines 126-132: the head of the for loop, the next distribution, the first draw
ForStep ==
    /\ gpc = "for"
    /\ IF i >= MAX_WORD_LEN
       THEN /\ gpc' = "return"
            /\ UNCHANGED <<distribution, ix_choice, ctr>>
       ELSE \E probs \in Predict(VOCAB_SIZE) :
              LET d == temp_scale(probs, temperature)
              IN /\ distribution' = d
                 /\ IF d.nan
                    THEN /\ gpc' = "raised"
                         /\ UNCHANGED <<ix_choice, ctr>>
                    ELSE /\ \E k \in Choice(d) : ix_choice' = k
                         /\ ctr' = 0
                         /\ gpc' = "while"
    /\ UNCHANGED <<temperature, min_word_length, gen_X, ix, i, generated_word, result>>
    /\ UNCHANGED script_vars

\* lines 133-140: the test of the while loop and one pass of its body
WhileStep ==
    /\ gpc = "while"
    /\ IF MustResample(ix_choice, i, min_word_length)
       THEN /\ ctr' = ctr + 1
            /\ \E k \in Choice(distribution) : ix_choice' = k
            /\ IF CapExhausted(ctr + 1)
               THEN /\ stdout' = Append(stdout, Diagnostic)
                    /\ gpc' = "accept"
               ELSE UNCHANGED <<stdout, gpc>>
       ELSE /\ gpc' = "accept"
            /\ UNCHANGED <<ctr, ix_choice, stdout>>
    /\ UNCHANGED <<temperature, min_word_length, gen_X, distribution, ix, i,
                   generated_word, result>>
    /\ UNCHANGED <<pc, args, words, chars, VOCAB_SIZE, N_WORDS, ix_to_char, char_to_ix,
                   X, Y, model, epoch, np_random, saved>>

\* lines 143-147
Accept ==
    /\ gpc = "accept"
    /\ LET next_ix == ix_choice
       IN /\ gen_X' = [gen_X EXCEPT ![i][next_ix] = 1]
          /\ IF next_ix = 0
             THEN /\ gpc' = "return"
                  /\ UNCHANGED <<generated_word, i>>
             ELSE /\ generated_word' = Append(generated_word, <<ix_to_char[next_ix]>>)
                  /\ i' = i + 1
                  /\ gpc' = "for"
    /\ UNCHANGED <<temperature, min_word_length, distribution, ix, ix_choice, ctr, result>>
    /\ UNCHANGED script_vars

\* line 149
Return ==
    /\ gpc = "return"
    /\ result' = Join(generated_word)
    /\ gpc' = "done"
    /\ UNCHANGED <<temperature, min_word_length, gen_X, distribution, ix, i, ix_choice,
                   ctr, generated_word>>
    /\ UNCHANGED script_vars

\* generate_word's variables before a call
GenIdle(t) ==
    /\ gpc = "start"
    /\ temperature = t
    /\ min_word_length = 4
    /\ gen_X = <<>>
    /\ distribution = NoDistribution
    /\ ix = 0
    /\ i = 0
    /\ ix_choice = 0
    /\ ctr = 0
    /\ generated_word = <<>>
    /\ result = <<>>

\* the script's state once lines 58-91 ran on the words ws
Encoded(ws) ==
    LET cs == sorted(CharSet(ws))
        XY == EncodeWords([X |-> Zeros(Len(ws), Len(cs)), Y |-> Zeros(Len(ws), Len(cs))],
                          ws, 0, CharToIx(cs))
    IN /\ words = ws
       /\ chars = ws[Len(ws)]       \* line 83 rebinds chars to list(word)
       /\ VOCAB_SIZE = Len(cs)
       /\ N_WORDS = Len(ws)
       /\ ix_to_char = IxToChar(cs)
       /\ char_to_ix = CharToIx(cs)
       /\ X = XY.X
       /\ Y = XY.Y

DefaultArgs ==
    [wordlist |-> "words.txt", savepath |-> None, modelpath |-> "model.h5",
     temperature |-> Rational(1, 1), nwords |-> 1, epochs |-> 100, verbose |-> FALSE]

\* a call generate_word(model, temperature = t, min_word_length = 4) on a loaded model
GenInit ==
    /\ pc = "generate"
    /\ args \in {[DefaultArgs EXCEPT !.temperature = t] : t \in Temperatures}
    /\ \E ws \in SampleWordLists : Encoded(ws)
    /\ model = [origin |-> "loaded", epochs |-> 0]
    /\ epoch = 0
    /\ np_random = 0
    /\ stdout = <<>>
    /\ saved = FALSE
    /\ GenIdle(args.temperature)

GenNext == GenStart \/ SampleFirst \/ ForStep \/ WhileStep \/ Accept \/ Return

SpecGen == GenInit /\ [][GenNext]_vars

\* a running program takes its next step, and a draw that has non-zero
\* probability at every pass of the loop is eventually drawn
SpecGenFair == SpecGen /\ WF_vars(GenNext)

----------------------------------------------------------------------------
(* The script, lines 8-174.                                                *)

NUM_EPOCHS == 500
SampleEvery == 50

\* bounds of the command lines and calls explored
MaxNWords == 1
MaxDraws == 2

EpochOptions == {100, NUM_EPOCHS}
ScriptTemperatures == {Rational(1, 1), Rational(1, 2000)}

\* the command lines: wordlist is positional (None: not given), the rest are options
CommandLines ==
    [wordlist : {None, "words.txt"}, savepath : {None, "out.h5"},
     modelpath : {None, "model.h5"}, temperature : ScriptTemperatures,
     nwords : 0..MaxNWords, epochs : EpochOptions, verbose : BOOLEAN]

\* line 162
LoadRequestedExclusive(a) == a.modelpath # None /\ a.savepath = None
LoadRequested(a) == a.modelpath # None

\* line 166: epochs = NUM_EPOCHS
FitEpochs(a) == NUM_EPOCHS

\* the final loop's count of printed words
WordsPrinted == Cardinality({k \in 1..Len(stdout) : stdout[k] = "word"})

\* One call generate_word(model, temperature = t, min_word_length = 4) as the
\* script sees it: it returns a string after at least one draw from np.random
\* (line 120 runs at least once), or np.random.choice raises on a NaN
\* distribution, after any number of draws.
GenerateWordOutcomes(t, v) ==
    {[raised |-> FALSE, draws |-> d] : d \in 1..MaxDraws}
    \cup {[raised |-> TRUE, draws |-> d] :
            d \in {n \in 0..MaxDraws : \E probs \in Predict(v) : temp_scale(probs, t).nan}}

\* line 32: parser.parse_args() exits with a usage error when the positional is missing
ParseArgs ==
    /\ pc = "parse"
    /\ pc' = IF args.wordlist = None THEN "usage_error" ELSE "words"
    /\ UNCHANGED <<args, words, chars, VOCAB_SIZE, N_WORDS, ix_to_char, char_to_ix,
                   X, Y, model, epoch, np_random, stdout, saved>>
    /\ UNCHANGED gen_vars

\* line 58
TextToWords(lists) ==
    /\ pc = "words"
    /\ words' \in lists
    /\ pc' = "vocab"
    /\ UNCHANGED <<args, chars, VOCAB_SIZE, N_WORDS, ix_to_char, char_to_ix,
                   X, Y, model, epoch, np_random, stdout, saved>>
    /\ UNCHANGED gen_vars

\* lines 62-76
BuildVocabulary ==
    /\ pc = "vocab"
    /\ chars' = sorted(CharSet(words))
    /\ VOCAB_SIZE' = Len(chars')
    /\ N_WORDS' = Len(words)
    /\ stdout' = IF args.verbose THEN Append(stdout, "vocabulary") ELSE stdout
    /\ ix_to_char' = IxToChar(chars')
    /\ char_to_ix' = CharToIx(chars')
    /\ pc' = "encode"
    /\ UNCHANGED <<args, words, X, Y, model, epoch, np_random, saved>>
    /\ UNCHANGED gen_vars

\* lines 78-91
EncodeTensors ==
    /\ pc = "encode"
    /\ LET XY == EncodeWords([X |-> Zeros(N_WORDS, VOCAB_SIZE), Y |-> Zeros(N_WORDS, VOCAB_SIZE)],
                             words, 0, char_to_ix)
       IN X' = XY.X /\ Y' = XY.Y
    /\ chars' = IF N_WORDS > 0 THEN words[N_WORDS] ELSE chars    \* line 83: chars = list(word)
    /\ pc' = "model"
    /\ UNCHANGED <<args, words, VOCAB_SIZE, N_WORDS, ix_to_char, char_to_ix,
                   model, epoch, np_random, stdout, saved>>
    /\ UNCHANGED gen_vars

\* lines 93-102
BuildModel ==
    /\ pc = "model"
    /\ model' = [origin |-> "fresh", epochs |-> 0]
    /\ pc' = "branch"
    /\ UNCHANGED <<args, words, chars, VOCAB_SIZE, N_WORDS, ix_to_char, char_to_ix,
                   X, Y, epoch, np_random, stdout, saved>>
    /\ UNCHANGED gen_vars

\* lines 162-164
LoadModel ==
    /\ pc = "branch"
    /\ LoadRequested(args)
    /\ model' = [origin |-> "loaded", epochs |-> 0]
    /\ pc' = "generate"
    /\ UNCHANGED <<args, words, chars, VOCAB_SIZE, N_WORDS, ix_to_char, char_to_ix,
                   X, Y, epoch, np_random, stdout, saved>>
    /\ UNCHANGED gen_vars

\* line 166: one epoch of model.fit; Keras shuffles the samples of every
\* epoch with the global numpy generator and then updates the parameters
FitEpoch ==
    /\ \/ pc = "branch" /\ ~LoadRequested(args)
       \/ pc = "fit"
    /\ epoch < FitEpochs(args)
    /\ np_random' = np_random + 1
    /\ model' = [origin |-> "trained", epochs |-> model.epochs + 1]
    /\ pc' = "epoch_end"
    /\ UNCHANGED <<args, words, chars, VOCAB_SIZE, N_WORDS, ix_to_char, char_to_ix,
                   X, Y, epoch, stdout, saved>>
    /\ UNCHANGED gen_vars

\* lines 152-154, called by model.fit after every epoch
on_epoch_end ==
    /\ pc = "epoch_end"
    /\ IF epoch % SampleEvery = 0 /\ args.verbose
       THEN \E o \in GenerateWordOutcomes(Rational(1, 1), VOCAB_SIZE) :
              /\ np_random' = np_random + o.draws
              /\ IF o.raised
                 THEN pc' = "crashed" /\ UNCHANGED <<stdout, epoch>>
                 ELSE /\ stdout' = Append(stdout, "epoch sample")
                      /\ epoch' = epoch + 1
                      /\ pc' = IF epoch + 1 >= FitEpochs(args) THEN "save" ELSE "fit"
       ELSE /\ UNCHANGED <<np_random, stdout>>
            /\ epoch' = epoch + 1
            /\ pc' = IF epoch + 1 >= FitEpochs(args) THEN "save" ELSE "fit"
    /\ UNCHANGED <<args, words, chars, VOCAB_SIZE, N_WORDS, ix_to_char, char_to_ix,
                   X, Y, model, saved>>
    /\ UNCHANGED gen_vars

\* lines 168-169
SaveModel ==
    /\ pc = "save"
    /\ saved' = (args.savepath # None)
    /\ pc' = "generate"
    /\ UNCHANGED <<args, words, chars, VOCAB_SIZE, N_WORDS, ix_to_char, char_to_ix,
                   X, Y, model, epoch, np_random, stdout>>
    /\ UNCHANGED gen_vars

\* lines 173-174: one pass of the final loop, or its end
PrintWord ==
    /\ pc = "generate"
    /\ IF WordsPrinted >= args.nwords
       THEN /\ pc' = "exit"
            /\ UNCHANGED <<np_random, stdout>>
       ELSE \E o \in GenerateWordOutcomes(args.temperature, VOCAB_SIZE) :
              /\ np_random' = np_random + o.draws
              /\ IF o.raised
                 THEN pc' = "crashed" /\ UNCHANGED stdout
                 ELSE pc' = "generate" /\ stdout' = Append(stdout, "word")
    /\ UNCHANGED <<args, words, chars, VOCAB_SIZE, N_WORDS, ix_to_char, char_to_ix,
                   X, Y, model, epoch, saved>>
    /\ UNCHANGED gen_vars

Init ==
    /\ pc = "parse"
    /\ args \in CommandLines
    /\ words = <<>>
    /\ chars = <<>>
    /\ VOCAB_SIZE = 0
    /\ N_WORDS = 0
    /\ ix_to_char = <<>>
    /\ char_to_ix = <<>>
    /\ X = <<>>
    /\ Y = <<>>
    /\ model = [origin |-> "none", epochs |-> 0]
    /\ epoch = 0
    /\ np_random = 0
    /\ stdout = <<>>
    /\ saved = FALSE
    /\ GenIdle(Rational(1, 1))

Next ==
    \/ ParseArgs
    \/ TextToWords(SampleWordLists)
    \/ BuildVocabulary
    \/ EncodeTensors
    \/ BuildModel
    \/ LoadModel
    \/ FitEpoch
    \/ on_epoch_end
    \/ SaveModel
    \/ PrintWord

Spec == Init /\ [][Next]_vars

\* lines 58-91 alone, on every word list of WordLists
EncInit ==
    /\ Init
    /\ args = DefaultArgs

EncNext ==
    \/ ParseArgs
    \/ TextToWords(WordLists)
    \/ BuildVocabulary
    \/ EncodeTensors

SpecEnc == EncInit /\ [][EncNext]_vars

----------------------------------------------------------------------------
(* Claims about generate_word (SpecGen, SpecGenFair).                      *)

Terminated == gpc \in {"done", "raised"}

\* the diagnostic of line 138 was never printed: no resampling loop of this call hit its cap
NoCapHit == stdout = <<>>

\* C1 (as claimed): every returned string has between 1 and MAX_WORD_LEN
\* characters, starts with the uppercased form of the first sampled character,
\* which is not the terminator, and holds the character of vocabulary index 0 nowhere.
C1_WordShape ==
    gpc = "done" =>
        /\ Len(result) >= 1
        /\ Len(result) <= MAX_WORD_LEN
        /\ ix # 0
        /\ SubSeq(result, 1, Len(Upper(ix_to_char[ix]))) = Upper(ix_to_char[ix])
        /\ \A k \in 1..Len(result) : result[k] # ix_to_char[0]

\* C2: a returned word has at least min_word_length characters unless the
\* resampling loop hit its cap, and the end marker is accepted at a timestep
\* i < min_word_length only when the cap was hit.
C2_MinLength ==
    /\ (gpc = "done" /\ NoCapHit) => Len(result) >= min_word_length
    /\ (gpc = "accept" /\ ix_choice = 0 /\ i < min_word_length) =>
           (~NoCapHit /\ ctr > ResampleCap)

\* C2 witness: a word returned without any cap hit, ended by the end marker
\* at the first timestep that may accept it
C2_Witness ==
    /\ gpc = "done"
    /\ NoCapHit
    /\ ix_choice = 0
    /\ i = min_word_length
    /\ Len(result) = min_word_length

\* C5 (as claimed): at most 1000 resamples in a timestep; once the cap is
\* exhausted the accepted index is the end marker and the word is returned
\* with i characters.
C5_AsClaimed ==
    /\ ctr <= ResampleCap
    /\ (gpc = "accept" /\ ctr >= ResampleCap /\ i < min_word_length) => ix_choice = 0
    /\ (gpc = "done" /\ ctr >= ResampleCap) => Len(generated_word) = i

\* C5 (amended): at a timestep i < min_word_length the sampler resamples at
\* most 1001 times; the loop gives up (and prints the diagnostic) exactly when
\* the 1001st resample has been drawn, and the index accepted is that last
\* draw: the end marker ends the word with i sampled characters, any other
\* index is appended and generation goes on.
C5_CapBehaviour ==
    /\ [](ctr <= ResampleCap + 1)
    /\ []((gpc = "accept" /\ ctr = ResampleCap + 1) => (i < min_word_length /\ ~NoCapHit))
    /\ [][stdout' # stdout =>
            (ctr' = ResampleCap + 1 /\ gpc' = "accept" /\ i < min_word_length)]_vars
    /\ [][(gpc = "accept" /\ ctr = ResampleCap + 1) =>
            IF ix_choice = 0
            THEN gpc' = "return" /\ generated_word' = generated_word
                 /\ Len(generated_word) = i
            ELSE gpc' = "for" /\ Len(generated_word') = i + 1
                 /\ generated_word'[i + 1] = <<ix_to_char[ix_choice]>>]_vars

\* C5 witness: the loop gave up after the 1001st resample, which drew a
\* character that is not the end marker
C5_Witness == gpc = "accept" /\ ctr = ResampleCap + 1 /\ ix_choice # 0

\* C6: under fair sampling a call terminates whenever the first-character
\* distribution gives a non-terminator index non-zero probability; after the
\* first character it always terminates, within MAX_WORD_LEN-1 timesteps of
\* at most ResampleCap+1 resamples each; with all mass on index 0 the first
\* loop never ends.
C6_Termination ==
    /\ (gpc = "first" /\ (distribution.nan \/ Choice(distribution) # {0})) ~> Terminated
    /\ (gpc \in {"for", "while", "accept", "return"}) ~> Terminated
    /\ [](i <= MAX_WORD_LEN /\ ctr <= ResampleCap + 1)
    /\ [][(gpc = "first" /\ ~distribution.nan /\ Choice(distribution) = {0}) =>
            gpc' = "first"]_vars

\* C6 witness: a call that ran through every timestep, one of which hit the cap
C6_Witness == gpc = "done" /\ i = MAX_WORD_LEN /\ ~NoCapHit

\* C10 (as claimed): the vector passed as p to np.random.choice is never NaN
\* (it is non-negative and sums to 1), and no call ends in an exception.
C10_NoNaN ==
    /\ ~distribution.nan
    /\ \A k \in DOMAIN distribution.weights : distribution.weights[k].kind \in {"pow2", "zero"}
    /\ gpc # "raised"

----------------------------------------------------------------------------
(* Claims about the vocabulary and the encoder (SpecEnc).                  *)

OneHot(v, n) == [k \in 0..(v - 1) |-> IF k = n THEN 1 ELSE 0]

SetEntries(row) == {k \in DOMAIN row : row[k] # 0}

\* C7 (as claimed): for every word list whose words end with the newline and
\* are otherwise arbitrary, vocabulary index 0 is the newline, and ix_to_char
\* and char_to_ix are inverse bijections.
C7_NewlineIsIndex0 ==
    pc \in {"encode", "model"} =>
        /\ ix_to_char[0] = NL
        /\ \A k \in DOMAIN ix_to_char : char_to_ix[ix_to_char[k]] = k
        /\ \A c \in DOMAIN char_to_ix : ix_to_char[char_to_ix[c]] = c
        /\ DOMAIN char_to_ix = CharSet(words)

\* C8: after encoding, Y is X shifted left by one timestep, the last timestep
\* of Y is all-zero, every row of X and Y has at most one set entry, and X
\* holds exactly the first MAX_WORD_LEN characters of every word.
C8_YIsXShifted ==
    pc = "model" =>
        \A w \in 0..(N_WORDS - 1) :
            /\ \A t \in 0..(MAX_WORD_LEN - 2) : Y[w][t] = X[w][t + 1]
            /\ Y[w][MAX_WORD_LEN - 1] = ZeroRow(VOCAB_SIZE)
            /\ \A t \in 0..(MAX_WORD_LEN - 1) :
                  /\ Cardinality(SetEntries(X[w][t])) <= 1
                  /\ Cardinality(SetEntries(Y[w][t])) <= 1
                  /\ X[w][t] = IF t < Len(words[w + 1])
                               THEN OneHot(VOCAB_SIZE, char_to_ix[words[w + 1][t + 1]])
                               ELSE ZeroRow(VOCAB_SIZE)

\* C8 witness: an encoded list with a word longer than MAX_WORD_LEN and a shorter one
C8_Witness ==
    /\ pc = "model"
    /\ \E w \in 1..N_WORDS : Len(words[w]) > MAX_WORD_LEN
    /\ \E w \in 1..N_WORDS : Len(words[w]) < MAX_WORD_LEN /\ Len(words[w]) > 1
    /\ \E w \in 0..(N_WORDS - 1) : \E t \in 0..(MAX_WORD_LEN - 1) : SetEntries(Y[w][t]) # {}

----------------------------------------------------------------------------
(* Claims about the script (Spec).                                         *)

\* C3 (as claimed): without --modelpath the model is fitted for exactly
\* args.epochs epochs.
C3_FitsConfiguredEpochs ==
    /\ model.epochs <= args.epochs
    /\ (pc \in {"save", "generate", "exit", "crashed"} /\ model.origin = "trained") =>
           model.epochs = args.epochs

\* --modelpath together with --savepath: load and save both requested
BothRequested == args.modelpath # None /\ args.savepath # None

\* C4 (as claimed): with both --modelpath and --savepath, or with neither a
\* word list nor a model, the run ends in an error before any computation and
\* prints nothing.
C4_ConfigurationError ==
    (BothRequested \/ (args.wordlist = None /\ args.modelpath = None)) =>
        (pc \in {"parse", "usage_error"} /\ stdout = <<>>)

\* C4 (amended): a missing word list is rejected by the argument parser before
\* any computation; --modelpath together with --savepath is not rejected: the
\* vocabulary, the tensors and a fresh model are built, the model is then
\* loaded, model.fit and model.save never run, and the generation loop is
\* entered with the loaded model.
C4_LoadWins ==
    /\ args.wordlist = None =>
          (pc \in {"parse", "usage_error"} /\ stdout = <<>> /\ words = <<>> /\ model.origin = "none")
    /\ (BothRequested /\ args.wordlist # None) =>
          /\ pc # "usage_error"
          /\ model.origin # "trained"
          /\ model.epochs = 0
          /\ epoch = 0
          /\ ~saved
          /\ pc \in {"generate", "exit", "crashed"} =>
                (model.origin = "loaded" /\ VOCAB_SIZE > 0 /\ X # <<>>)
          /\ WordsPrinted > 0 => model.origin = "loaded"

\* C4 witness: both options given, and the run printed its words and ended
C4_Witness ==
    /\ BothRequested
    /\ pc = "exit"
    /\ args.nwords > 0
    /\ WordsPrinted = args.nwords

\* C9 (as claimed): on_epoch_end leaves everything training depends on
\* unchanged: the model's parameters, X and Y, the vocabulary mappings and
\* the numpy generator that model.fit shares.
C9_Observational ==
    [][pc = "epoch_end" =>
         UNCHANGED <<model, X, Y, ix_to_char, char_to_ix, np_random>>]_vars

====
